---- MODULE Spec2Model ----
(***************************************************************************)
(* Model of the quad tree of src/src/qtree.rs together with the square     *)
(* geometry of src/src/area.rs and the distance of src/src/point.rs.       *)
(*                                                                         *)
(* Coordinates are f32 values that are whole numbers of model units; the   *)
(* arithmetic on them rounds to a 24-bit significand as f32 does (F32).    *)
(* The epsilon 0.01 of Node::subdivide is Eps model units, and             *)
(* Eps = 2^MaxDepth so that the halving of a radius is exact down to depth *)
(* MaxDepth.                                                               *)
(***************************************************************************)
EXTENDS Integers, Sequences, FiniteSets, TLC

\* Bounds of the model.
MaxDepth == 3          \* deepest level at which a leaf may sit
MaxSize == 4           \* most points stored in the tree at once

\* Max points in leaf node (scaled down from the source's 1000).
MAX_POINTS == 2

\* The epsilon 0.01 of subdivide, in model units.
Eps == 2 ^ MaxDepth

----------------------------------------------------------------------------
\* Points and areas

Pt(x, y) == [x |-> x * Eps, y |-> y * Eps, z |-> 0]

NoPoint == [x |-> 0, y |-> 0, z |-> -1]

Square(x, y, r) == [center |-> Pt(x, y), radius |-> r * Eps]

NoArea == [center |-> NoPoint, radius |-> 0]

\* A point given in model units.
PointOf(x, y) == [x |-> x, y |-> y, z |-> 0]

\* An area given in model units.
AreaOf(x, y, r) == [center |-> [x |-> x, y |-> y, z |-> 0], radius |-> r]

Abs(n) == IF n < 0 THEN -n ELSE n

\* Bits of the significand of an f32.
Significand == 24

\* The f32 nearest to the whole number n, ties to the even significand
\* (|n| < 2^31): the rounding of every f32 operation.
F32(n) ==
    LET a == Abs(n)
    IN IF a < 2 ^ Significand THEN n
       ELSE LET k == CHOOSE j \in 1..7 :
                       /\ a >= 2 ^ (Significand + j - 1)
                       /\ (j = 7 \/ a < 2 ^ (Significand + j))
                q == a \div (2 ^ k)
                rem == a % (2 ^ k)
                half == 2 ^ (k - 1)
                m == IF rem > half \/ (rem = half /\ q % 2 = 1) THEN q + 1 ELSE q
            IN (IF n < 0 THEN -1 ELSE 1) * m * (2 ^ k)

distance_sq(p, other) ==
    LET dx == F32(p.x - other.x)
        dy == F32(p.y - other.y)
    IN F32(F32(dx * dx) + F32(dy * dy))

is_point_inside(area, point) ==
    LET x_inside == /\ point.x >= F32(area.center.x - area.radius)
                    /\ point.x <= F32(area.center.x + area.radius)
        y_inside == /\ point.y >= F32(area.center.y - area.radius)
                    /\ point.y <= F32(area.center.y + area.radius)
    IN x_inside /\ y_inside

Min(a, b) == IF a < b THEN a ELSE b

Max(a, b) == IF a > b THEN a ELSE b

\* Stand-in for f32::MAX (and, negated, f32::MIN): above every coordinate.
F32_MAX == 2147483647

RECURSIVE BoundsFold(_, _, _)
\* The fold of from_points over the points from position i on.
BoundsFold(points, i, acc) ==
    IF i > Len(points) THEN acc
    ELSE BoundsFold(points, i + 1,
                    [min_x |-> Min(acc.min_x, points[i].x),
                     min_y |-> Min(acc.min_y, points[i].y),
                     max_x |-> Max(acc.max_x, points[i].x),
                     max_y |-> Max(acc.max_y, points[i].y)])

\* Area::from_points; the halvings are exact in f32, and exact here for the
\* even coordinates the model passes.
from_points(points) ==
    LET b == BoundsFold(points, 1, [min_x |-> F32_MAX, min_y |-> F32_MAX,
                                    max_x |-> -F32_MAX, max_y |-> -F32_MAX])
        width == F32(b.max_x - b.min_x)
        height == F32(b.max_y - b.min_y)
    IN [center |-> [x |-> F32(width \div 2 + b.min_x),
                    y |-> F32(height \div 2 + b.min_y),
                    z |-> 0],
        radius |-> Max(width, height) \div 2]

\* Mutant: the reach is twice the radius of self, not the sum of the radii.
intersects_OwnRadius(area, other) ==
    LET dx == Abs(F32(area.center.x - other.center.x))
        dy == Abs(F32(area.center.y - other.center.y))
        x_inter == dx <= F32(area.radius + area.radius)
        y_inter == dy <= F32(area.radius + area.radius)
    IN x_inter /\ y_inter

intersects(area, other) ==
    LET dx == Abs(F32(area.center.x - other.center.x))
        dy == Abs(F32(area.center.y - other.center.y))
        x_inter == dx <= F32(area.radius + other.radius)
        y_inter == dy <= F32(area.radius + other.radius)
    IN x_inter /\ y_inter

----------------------------------------------------------------------------
\* Nodes

Leaf(area, points) ==
    [area |-> area, inner |-> [tag |-> "Leaf", points |-> points]]

Intermediate(area, nw, ne, sw, se) ==
    [area |-> area,
     inner |-> [tag |-> "Intermediate", nw |-> nw, ne |-> ne, sw |-> sw, se |-> se]]

new_leaf(area) == Leaf(area, <<>>)

IsLeaf(node) == node.inner.tag = "Leaf"

RECURSIVE Node_size(_)
Node_size(node) ==
    IF IsLeaf(node) THEN Len(node.inner.points)
    ELSE Node_size(node.inner.nw) + Node_size(node.inner.ne)
         + Node_size(node.inner.sw) + Node_size(node.inner.se)

\* The four children of a subdivided area, as an Intermediate of empty leaves.
Subdivided(area) ==
    LET r == F32(area.radius \div 2 + Eps)
        child(sx, sy) == [center |-> [x |-> F32(area.center.x + sx * r),
                                      y |-> F32(area.center.y + sy * r),
                                      z |-> 0],
                          radius |-> r]
    IN Intermediate(area, new_leaf(child(-1, -1)), new_leaf(child(1, -1)),
                          new_leaf(child(-1, 1)), new_leaf(child(1, 1)))

RECURSIVE Node_insert(_, _, _)
RECURSIVE Node_subdivide(_, _)
RECURSIVE Reinsert(_, _, _, _)

\* Mutant: a leaf is subdivided as soon as it holds MAX_POINTS points.
Node_insert_match_AtCapacity(self, point, depth) ==
    IF ~IsLeaf(self) THEN
        LET in == self.inner
            down(r, f) == [res |-> r.res, node |-> [self EXCEPT !.inner[f] = r.node]]
        IN IF is_point_inside(in.nw.area, point)
             THEN down(Node_insert(in.nw, point, depth + 1), "nw")
           ELSE IF is_point_inside(in.ne.area, point)
             THEN down(Node_insert(in.ne, point, depth + 1), "ne")
           ELSE IF is_point_inside(in.sw.area, point)
             THEN down(Node_insert(in.sw, point, depth + 1), "sw")
           ELSE IF is_point_inside(in.se.area, point)
             THEN down(Node_insert(in.se, point, depth + 1), "se")
           ELSE [res |-> "Panic", node |-> self]
    ELSE
        LET pushed == [self EXCEPT !.inner.points = Append(@, point)]
        IN IF Len(pushed.inner.points) >= MAX_POINTS
             THEN Node_subdivide(pushed, depth)
             ELSE [res |-> "Ok", node |-> pushed]

\* Mutant: the children are tried in SE, SW, NE, NW order.
Node_insert_match_SeFirst(self, point, depth) ==
    IF ~IsLeaf(self) THEN
        LET in == self.inner
            down(r, f) == [res |-> r.res, node |-> [self EXCEPT !.inner[f] = r.node]]
        IN IF is_point_inside(in.se.area, point)
             THEN down(Node_insert(in.se, point, depth + 1), "se")
           ELSE IF is_point_inside(in.sw.area, point)
             THEN down(Node_insert(in.sw, point, depth + 1), "sw")
           ELSE IF is_point_inside(in.ne.area, point)
             THEN down(Node_insert(in.ne, point, depth + 1), "ne")
           ELSE IF is_point_inside(in.nw.area, point)
             THEN down(Node_insert(in.nw, point, depth + 1), "nw")
           ELSE [res |-> "Panic", node |-> self]
    ELSE
        LET pushed == [self EXCEPT !.inner.points = Append(@, point)]
        IN IF Len(pushed.inner.points) > MAX_POINTS
             THEN Node_subdivide(pushed, depth)
             ELSE [res |-> "Ok", node |-> pushed]

\* The `match &mut self.inner` of Node::insert, after the containment test.
Node_insert_match(self, point, depth) ==
    IF ~IsLeaf(self) THEN
        LET in == self.inner
            down(r, f) == [res |-> r.res, node |-> [self EXCEPT !.inner[f] = r.node]]
        IN IF is_point_inside(in.nw.area, point)
             THEN down(Node_insert(in.nw, point, depth + 1), "nw")
           ELSE IF is_point_inside(in.ne.area, point)
             THEN down(Node_insert(in.ne, point, depth + 1), "ne")
           ELSE IF is_point_inside(in.sw.area, point)
             THEN down(Node_insert(in.sw, point, depth + 1), "sw")
           ELSE IF is_point_inside(in.se.area, point)
             THEN down(Node_insert(in.se, point, depth + 1), "se")
           ELSE [res |-> "Panic", node |-> self]
    ELSE
        LET pushed == [self EXCEPT !.inner.points = Append(@, point)]
        IN IF Len(pushed.inner.points) > MAX_POINTS
             THEN Node_subdivide(pushed, depth)
             ELSE [res |-> "Ok", node |-> pushed]

\* Mutant: insert without the containment test at its head.
Node_insert_NoAreaCheck(self, point, depth) ==
    Node_insert_match(self, point, depth)

\* Node::insert: res is "Ok", "Err" (OutsideArea), "Panic" (unreachable! or a
\* failed expect) or "Overflow" (the recursion left the modelled depth).
Node_insert(self, point, depth) ==
    IF ~is_point_inside(self.area, point)
      THEN [res |-> "Err", node |-> self]
      ELSE Node_insert_match(self, point, depth)

\* Mutant: the saved points all go to the NW child, with no containment test.
Reinsert_IntoNw(self, points, i, depth) ==
    [res |-> "Ok", node |-> [self EXCEPT !.inner.nw.inner.points = points]]

\* The loop `for p in points { self.insert(p).expect(..) }` from position i.
Reinsert(self, points, i, depth) ==
    IF i > Len(points) THEN [res |-> "Ok", node |-> self]
    ELSE LET r == Node_insert(self, points[i], depth)
         IN IF r.res = "Ok" THEN Reinsert(r.node, points, i + 1, depth)
            ELSE IF r.res = "Overflow" THEN r
            ELSE [res |-> "Panic", node |-> r.node]

\* Mutant: a maximum-depth cutoff; at the cutoff the leaf is kept as it is.
Node_subdivide_Cutoff(self, depth) ==
    IF depth >= MaxDepth THEN [res |-> "Ok", node |-> self]
    ELSE Reinsert(Subdivided(self.area), self.inner.points, 1, depth)

Node_subdivide(self, depth) ==
    IF depth >= MaxDepth THEN [res |-> "Overflow", node |-> self]
    ELSE Reinsert(Subdivided(self.area), self.inner.points, 1, depth)

----------------------------------------------------------------------------
\* Query

\* Vec::swap_remove at the 0-based index idx: the last element takes its place.
swap_remove(points, idx) ==
    LET n == Len(points)
    IN [k \in 1..(n - 1) |-> IF k = idx + 1 THEN points[n] ELSE points[k]]

\* The closures handed to Node::query: "clone" is |points, idx| points[idx].clone()
\* and "swap_remove" is |points, idx| points.swap_remove(idx).
get_point(f, points, idx) ==
    IF f = "clone"
      THEN [point |-> points[idx + 1], points |-> points]
      ELSE [point |-> points[idx + 1], points |-> swap_remove(points, idx)]

RECURSIVE LeafScan(_, _, _, _, _, _)

\* Mutant: the scan moves on to i + 1 after taking a point.
LeafScan_Advance(points, i, area, f, results, idx) ==
    IF ~(i < Len(points))
      THEN [res |-> "Ok", points |-> points, results |-> results, idx |-> idx]
    ELSE IF ~is_point_inside(area, points[i + 1])
      THEN LeafScan(points, i + 1, area, f, results, idx)
    ELSE LET g == get_point(f, points, i)
         IN IF ~(idx < Len(results))
              THEN [res |-> "Panic", points |-> g.points, results |-> results, idx |-> idx]
              ELSE LeafScan(g.points, i + 1, area, f,
                            [results EXCEPT ![idx + 1] = g.point], idx + 1)

\* The while loop over a leaf's points, from the 0-based position i; the
\* write results[*idx] panics when idx is not below the buffer's length.
LeafScan(points, i, area, f, results, idx) ==
    IF ~(i < Len(points))
      THEN [res |-> "Ok", points |-> points, results |-> results, idx |-> idx]
    ELSE IF ~is_point_inside(area, points[i + 1])
      THEN LeafScan(points, i + 1, area, f, results, idx)
    ELSE LET g == get_point(f, points, i)
         IN IF ~(idx < Len(results))
              THEN [res |-> "Panic", points |-> g.points, results |-> results, idx |-> idx]
              ELSE LeafScan(g.points, i, area, f,
                            [results EXCEPT ![idx + 1] = g.point], idx + 1)

RECURSIVE Node_query(_, _, _, _, _)

\* Mutant: the child is queried without the intersects test in front.
QueryChild_Unguarded(st, c, area, f) ==
    IF st.res # "Ok" THEN st
    ELSE LET r == Node_query(st.node.inner[c], area, f, st.results, st.idx)
         IN [res |-> r.res,
             node |-> [st.node EXCEPT !.inner[c] = r.node],
             results |-> r.results,
             idx |-> r.idx]

\* One `if child.area.intersects(area) { child.query(..)?; }` step on the
\* running state st = [res, node, results, idx] of an Intermediate.
QueryChild(st, c, area, f) ==
    IF st.res # "Ok" THEN st
    ELSE IF ~intersects(st.node.inner[c].area, area) THEN st
    ELSE LET r == Node_query(st.node.inner[c], area, f, st.results, st.idx)
         IN [res |-> r.res,
             node |-> [st.node EXCEPT !.inner[c] = r.node],
             results |-> r.results,
             idx |-> r.idx]

\* Node::query: res is "Ok", "Err" (OutsideArea) or "Panic".
Node_query(self, area, f, results, idx) ==
    IF ~intersects(self.area, area)
      THEN [res |-> "Err", node |-> self, results |-> results, idx |-> idx]
    ELSE IF ~IsLeaf(self) THEN
        LET st0 == [res |-> "Ok", node |-> self, results |-> results, idx |-> idx]
            st1 == QueryChild(st0, "nw", area, f)
            st2 == QueryChild(st1, "ne", area, f)
            st3 == QueryChild(st2, "sw", area, f)
        IN QueryChild(st3, "se", area, f)
    ELSE
        LET s == LeafScan(self.inner.points, 0, area, f, results, idx)
        IN [res |-> s.res,
            node |-> [self EXCEPT !.inner.points = s.points],
            results |-> s.results,
            idx |-> s.idx]

\* Mutant: query takes the points out of the leaves as query_remove does.
QuadTree_query_Removing(root, area, results) ==
    Node_query(root, area, "swap_remove", results, 0)

QuadTree_query(root, area, results) ==
    Node_query(root, area, "clone", results, 0)

QuadTree_query_remove(root, area, results) ==
    Node_query(root, area, "swap_remove", results, 0)

----------------------------------------------------------------------------
\* Nearest.  An Option is <<>> for None and <<v>> for Some(v).

\* Mutant: on equal distances the first argument is kept.
min_point_KeepFirst(a, b) ==
    IF a = <<>> /\ b = <<>> THEN <<>>
    ELSE IF a = <<>> THEN b
    ELSE IF b = <<>> THEN a
    ELSE IF a[1].dist <= b[1].dist THEN a ELSE b

min_point(a, b) ==
    IF a = <<>> /\ b = <<>> THEN <<>>
    ELSE IF a = <<>> THEN b
    ELSE IF b = <<>> THEN a
    ELSE IF a[1].dist < b[1].dist THEN a ELSE b

RECURSIVE LeafNearest(_, _, _, _)

\* points.iter().fold(None, ..) from position i with accumulator acc.
LeafNearest(points, i, point, acc) ==
    IF i > Len(points) THEN acc
    ELSE LeafNearest(points, i + 1, point,
                     min_point(acc, <<[dist |-> distance_sq(points[i], point),
                                       p |-> points[i]]>>))

RECURSIVE Node_nearest(_, _)

\* One `if child.area.is_point_inside(point) { res = min_point(res, nw.nearest(point)?); }`
\* step: the test is on child c, the recursion is into nw for every child.
NearestChild(st, self, c, point) ==
    IF st.res # "Ok" THEN st
    ELSE IF ~is_point_inside(self.inner[c].area, point) THEN st
    ELSE LET r == Node_nearest(self.inner.nw, point)
         IN IF r.res # "Ok" THEN r
            ELSE [res |-> "Ok", opt |-> min_point(st.opt, r.opt)]

\* Node::nearest: res is "Ok" or "Err" (OutsideArea), opt the Option<(f32, &Point)>.
Node_nearest(self, point) ==
    IF ~is_point_inside(self.area, point)
      THEN [res |-> "Err", opt |-> <<>>]
    ELSE IF ~IsLeaf(self) THEN
        LET st0 == [res |-> "Ok", opt |-> <<>>]
            st1 == NearestChild(st0, self, "nw", point)
            st2 == NearestChild(st1, self, "ne", point)
            st3 == NearestChild(st2, self, "sw", point)
        IN NearestChild(st3, self, "se", point)
    ELSE [res |-> "Ok", opt |-> LeafNearest(self.inner.points, 1, point, <<>>)]

\* QuadTree::nearest drops the distance: Option<&Point>.
QuadTree_nearest(root, point) ==
    LET r == Node_nearest(root, point)
    IN [res |-> r.res, opt |-> IF r.opt = <<>> THEN <<>> ELSE <<r.opt[1].p>>]

----------------------------------------------------------------------------
\* The program: one QuadTree, driven by calls of its public methods.

\* The area handed to QuadTree::new.
RootArea == Square(0, 0, 4)

\* Points the caller inserts or asks nearest for; Pt(5, 5) is outside RootArea.
Points == {Pt(-2, -2), Pt(2, -2), Pt(0, 0), Pt(2, 2), Pt(1, 1), Pt(-2, 2), Pt(5, 5)}

\* Areas the caller queries; Square(20, 20, 1) does not intersect RootArea.
Areas == {Square(0, 0, 1), Square(0, 0, 4), Square(-3, -3, 1), Square(4, 4, 2),
          Square(20, 20, 1)}

\* Lengths of the results buffers the caller passes.
BufLens == {1, MaxSize}

\* A results buffer of length n as the caller passes it.
Buffer(n) == [i \in 1..n |-> NoPoint]

VARIABLES
    tree,       \* QuadTree.0, the root Node
    alive,      \* FALSE once a call has panicked
    op,         \* the last call
    arg_point,  \* its point argument
    arg_area,   \* its area argument
    results,    \* its results buffer, as the call left it
    ret,        \* what it returned: [tag, n, opt]
    pre,        \* the root Node before it
    pc,         \* where a run of the free functions stands ("qtree" for the tree)
    arg,        \* the argument of the free function under test
    stream,     \* the bytes written by the point writer
    out         \* what the free function returned

tree_vars == <<tree, alive, op, arg_point, arg_area, results, ret, pre>>

fn_vars == <<pc, arg, stream, out>>

vars == <<tree, alive, op, arg_point, arg_area, results, ret, pre, pc, arg, stream, out>>

Ret(tag, n, opt) == [tag |-> tag, n |-> n, opt |-> opt]

QuadTree_new(area) == new_leaf(area)

QuadTree_size(t) == Node_size(t)

QuadTree_insert(t, point) == Node_insert(t, point, 0)

\* The tree right after QuadTree::new(area).
InitTree(area) ==
    /\ tree = QuadTree_new(area)
    /\ alive = TRUE
    /\ op = "new"
    /\ arg_point = NoPoint
    /\ arg_area = area
    /\ results = <<>>
    /\ ret = Ret("Ok", 0, <<>>)
    /\ pre = QuadTree_new(area)

\* No free function is under test.
InitFn ==
    /\ pc = "qtree"
    /\ arg = <<>>
    /\ stream = <<>>
    /\ out = <<>>

Init == InitTree(RootArea) /\ InitFn

\* tree.insert(point)
Insert(point) ==
    LET r == QuadTree_insert(tree, point)
    IN /\ alive
       /\ is_point_inside(tree.area, point) => QuadTree_size(tree) < MaxSize
       /\ r.res # "Overflow"
       /\ tree' = r.node
       /\ alive' = (r.res # "Panic")
       /\ op' = "insert"
       /\ arg_point' = point
       /\ arg_area' = NoArea
       /\ results' = <<>>
       /\ ret' = Ret(r.res, 0, <<>>)
       /\ pre' = tree
       /\ UNCHANGED fn_vars

\* tree.query(&area, &mut results) with a buffer of length n
Query(area, n) ==
    LET r == QuadTree_query(tree, area, Buffer(n))
    IN /\ alive
       /\ tree' = r.node
       /\ alive' = (r.res # "Panic")
       /\ op' = "query"
       /\ arg_point' = NoPoint
       /\ arg_area' = area
       /\ results' = r.results
       /\ ret' = Ret(r.res, IF r.res = "Ok" THEN r.idx ELSE 0, <<>>)
       /\ pre' = tree
       /\ UNCHANGED fn_vars

\* tree.query_remove(&area, &mut results) with a buffer of length n
QueryRemove(area, n) ==
    LET r == QuadTree_query_remove(tree, area, Buffer(n))
    IN /\ alive
       /\ tree' = r.node
       /\ alive' = (r.res # "Panic")
       /\ op' = "query_remove"
       /\ arg_point' = NoPoint
       /\ arg_area' = area
       /\ results' = r.results
       /\ ret' = Ret(r.res, IF r.res = "Ok" THEN r.idx ELSE 0, <<>>)
       /\ pre' = tree
       /\ UNCHANGED fn_vars

\* tree.nearest(&point)
Nearest(point) ==
    LET r == QuadTree_nearest(tree, point)
    IN /\ alive
       /\ tree' = tree
       /\ alive' = TRUE
       /\ op' = "nearest"
       /\ arg_point' = point
       /\ arg_area' = NoArea
       /\ results' = <<>>
       /\ ret' = Ret(r.res, 0, r.opt)
       /\ pre' = tree
       /\ UNCHANGED fn_vars

Next ==
    \/ \E point \in Points : Insert(point)
    \/ \E area \in Areas, n \in BufLens : Query(area, n)
    \/ \E area \in Areas, n \in BufLens : QueryRemove(area, n)
    \/ \E point \in Points : Nearest(point)

Spec == Init /\ [][Next]_vars

----------------------------------------------------------------------------
\* The same program on a tree far from the origin, where f32 has fewer
\* digits left below the point than the 0.01 of subdivide needs.

\* The x of the centre of the far root: 68369864 * Eps, where the f32
\* neighbours are 64 apart.
FarX == 546958912

\* The area handed to QuadTree::new: radius 100004 * Eps.
FarRoot == AreaOf(FarX, 0, 800032)

\* Points the caller inserts, all f32 values; the first and the last are on
\* the rounded west and east boundary of FarRoot.
FarPoints == {PointOf(FarX - 800064, 0), PointOf(FarX - 400000, 0),
              PointOf(FarX, 0), PointOf(FarX, 400000),
              PointOf(FarX + 400000, 0), PointOf(FarX + 800064, 0)}

InitFar == InitTree(FarRoot) /\ InitFn

NextFar == \E point \in FarPoints : Insert(point)

SpecFar == InitFar /\ [][NextFar]_vars

----------------------------------------------------------------------------
\* Area::intersects on pairs of areas

\* The areas of tests::area_intersects (one model unit is 0.1 there), areas
\* around them, and areas large enough for the f32 sums to round.
TestAreas == {AreaOf(0, 0, 10), AreaOf(20, 20, 10), AreaOf(20, 20, 9),
              AreaOf(0, 21, 10), AreaOf(5, 0, 2), AreaOf(-20, 20, 10),
              AreaOf(40, 0, 10), AreaOf(0, 0, 0),
              AreaOf(0, 0, 8388609), AreaOf(16777220, 0, 8388610),
              AreaOf(16777220, 0, 8388609)}

InitIntersects ==
    /\ InitTree(RootArea)
    /\ pc = "intersects"
    /\ arg \in {[a |-> a, b |-> b] : a \in TestAreas, b \in TestAreas}
    /\ stream = <<>>
    /\ out = <<>>

\* a.intersects(&b) and b.intersects(&a), as the test calls them
ApplyIntersects ==
    /\ pc = "intersects"
    /\ pc' = "intersects_done"
    /\ out' = [ab |-> intersects(arg.a, arg.b), ba |-> intersects(arg.b, arg.a)]
    /\ UNCHANGED <<arg, stream>>
    /\ UNCHANGED tree_vars

NextIntersects == ApplyIntersects

SpecIntersects == InitIntersects /\ [][NextIntersects]_vars

----------------------------------------------------------------------------
\* Area::from_points on sequences of points

\* Longest sequence passed to from_points.
MaxPoints == 3

\* Points close together and points far enough apart for f32 to round
\* their distance; every coordinate is even.
FromPoints == {PointOf(0, 10), PointOf(20, 20), PointOf(-6, 4),
               PointOf(-16760748, 0), PointOf(16832478, 0)}

SeqsUpTo(S, n) == UNION {[1..k -> S] : k \in 1..n}

InitFromPoints ==
    /\ InitTree(RootArea)
    /\ pc = "from_points"
    /\ arg \in SeqsUpTo(FromPoints, MaxPoints)
    /\ stream = <<>>
    /\ out = <<>>

\* Area::from_points(&arg)
ApplyFromPoints ==
    /\ pc = "from_points"
    /\ pc' = "from_points_done"
    /\ out' = from_points(arg)
    /\ UNCHANGED <<arg, stream>>
    /\ UNCHANGED tree_vars

NextFromPoints == ApplyFromPoints

SpecFromPoints == InitFromPoints /\ [][NextFromPoints]_vars

----------------------------------------------------------------------------
\* data.rs: points written to and read from a stream of bytes

\* Most points written in one call of write_points.
MaxRecords == 2

\* An f32 by its 32 bits: the sign bit and the lower 31 bits.
Bits(sign, mag) == [sign |-> sign, mag |-> mag]

\* Point<f32> with its payload.
Record(x, y, data) == [x |-> x, y |-> y, data |-> data]

\* Mutant: the most significant byte first.
from_be_bytes(buf) ==
    Bits(buf[1] \div 128,
         (buf[1] % 128) * (2 ^ 24) + buf[2] * 65536 + buf[3] * 256 + buf[4])

\* f32::to_le_bytes
to_le_bytes(v) ==
    << v.mag % 256,
       (v.mag \div 256) % 256,
       (v.mag \div 65536) % 256,
       (v.mag \div (2 ^ 24)) + 128 * v.sign >>

\* f32::from_le_bytes
from_le_bytes(buf) ==
    Bits(buf[4] \div 128,
         (buf[4] % 128) * (2 ^ 24) + buf[3] * 65536 + buf[2] * 256 + buf[1])

\* PointWriter::write, on the bytes written so far
PointWriter_write(w, point) ==
    w \o to_le_bytes(point.x) \o to_le_bytes(point.y) \o to_le_bytes(point.data)

RECURSIVE WriteLoop(_, _, _)
\* The loop of write_points from position i on.
WriteLoop(w, points, i) ==
    IF i > Len(points) THEN w
    ELSE WriteLoop(PointWriter_write(w, points[i]), points, i + 1)

\* write_points into an empty writer; the bytes it holds afterwards
write_points(points) == WriteLoop(<<>>, points, 1)

RECURSIVE ReadLoop(_, _, _, _)
\* The loop of PointReader::read: pos is the next byte of the reader, comps
\* the components read since the last point (comp_idx is their number).
ReadLoop(r, pos, comps, points) ==
    IF pos + 3 <= Len(r)
    THEN LET comp == from_le_bytes(SubSeq(r, pos, pos + 3))
             cs == Append(comps, comp)
         IN IF Len(cs) = 3
            THEN ReadLoop(r, pos + 4, <<>>,
                          Append(points, Record(cs[1], cs[2], cs[3])))
            ELSE ReadLoop(r, pos + 4, cs, points)
    ELSE [res |-> "Ok", points |-> points]

\* PointReader::read
PointReader_read(r) == ReadLoop(r, 1, <<>>, <<>>)

\* read_points
read_points(reader) == PointReader_read(reader)

\* The points of tests::point_read_write, and others from their components.
CodecPoints ==
    {Record(Bits(0, 1056964608), Bits(0, 1065353216), Bits(1, 1067030938)),
     Record(Bits(0, 1073741824), Bits(0, 1077936128), Bits(1, 1082130432)),
     Record(Bits(0, 0), Bits(1, 0), Bits(0, 1)),
     Record(Bits(1, 2147483647), Bits(0, 2143289344), Bits(0, 16909060)),
     Record(Bits(0, 1065353216), Bits(0, 1056964608), Bits(0, 1056964608))}

InitCodec ==
    /\ InitTree(RootArea)
    /\ pc = "write"
    /\ arg \in {<<>>} \cup SeqsUpTo(CodecPoints, MaxRecords)
    /\ stream = <<>>
    /\ out = <<>>

\* write_points(stream, &arg)
WritePoints ==
    /\ pc = "write"
    /\ pc' = "written"
    /\ stream' = write_points(arg)
    /\ UNCHANGED <<arg, out>>
    /\ UNCHANGED tree_vars

\* The reader ends after n bytes of what was written.
Truncate(n) ==
    /\ pc = "written"
    /\ n < Len(stream)
    /\ pc' = "cut"
    /\ stream' = SubSeq(stream, 1, n)
    /\ UNCHANGED <<arg, out>>
    /\ UNCHANGED tree_vars

\* read_points(stream)
ReadPoints ==
    /\ pc \in {"written", "cut"}
    /\ pc' = "read"
    /\ out' = read_points(stream)
    /\ UNCHANGED <<arg, stream>>
    /\ UNCHANGED tree_vars

NextCodec ==
    \/ WritePoints
    \/ \E n \in 0..(12 * MaxRecords) : Truncate(n)
    \/ ReadPoints

SpecCodec == InitCodec /\ [][NextCodec]_vars

----------------------------------------------------------------------------
\* Node::subdivide call by call, on a leaf that Node::insert has just filled
\* past MAX_POINTS.  arg is the leaf of the running call, out the number of
\* subdivide calls entered so far, counted up to MaxFrames.

\* The count of entered subdivide calls stops here.
MaxFrames == 6

\* A root of radius 0.02, the radius that radius / 2 + 0.01 maps to itself.
ClusterRoot == AreaOf(0, 0, 2 * Eps)

\* Points the leaf was filled with: three inside the same quarter of
\* ClusterRoot, its centre, and one in the opposite quarter.
ClusterPoints == {PointOf(-Eps, -Eps), PointOf(-(Eps \div 2), -Eps),
                  PointOf(-Eps, -(Eps \div 2)), PointOf(0, 0), PointOf(Eps, Eps)}

InitCluster ==
    /\ InitTree(RootArea)
    /\ pc = "subdivide"
    /\ arg \in {Leaf(ClusterRoot, points) :
                  points \in [1..(MAX_POINTS + 1) -> ClusterPoints]}
    /\ stream = <<>>
    /\ out = 1

\* The child of an Intermediate on which the nested subdivide was called: the
\* one leaf holding more than MAX_POINTS points.
Overfull(node) ==
    LET c == CHOOSE c \in {"nw", "ne", "sw", "se"} :
                 Len(node.inner[c].inner.points) > MAX_POINTS
    IN node.inner[c]

\* One call of self.subdivide() on the leaf arg: the children are made and
\* the points reinserted.  The reinsertion runs at depth MaxDepth - 1, so a
\* child pushed past MAX_POINTS ends it with "Overflow": that is the nested
\* call of subdivide, whose leaf becomes arg.
Subdivide ==
    LET r == Reinsert(Subdivided(arg.area), arg.inner.points, 1, MaxDepth - 1)
    IN /\ pc = "subdivide"
       /\ IF r.res = "Overflow"
            THEN /\ pc' = "subdivide"
                 /\ arg' = Overfull(r.node)
                 /\ out' = IF out < MaxFrames THEN out + 1 ELSE out
                 /\ stream' = stream
            ELSE /\ pc' = (IF r.res = "Ok" THEN "returned" ELSE "panicked")
                 /\ stream' = <<r.node>>
                 /\ UNCHANGED <<arg, out>>
       /\ UNCHANGED tree_vars

NextCluster == Subdivide

SpecCluster == InitCluster /\ [][NextCluster]_vars

----------------------------------------------------------------------------
\* Observations used by the properties

RECURSIVE Node_points(_)
\* Every stored point, leaf by leaf in NW, NE, SW, SE order.
Node_points(node) ==
    IF IsLeaf(node) THEN node.inner.points
    ELSE Node_points(node.inner.nw) \o Node_points(node.inner.ne)
         \o Node_points(node.inner.sw) \o Node_points(node.inner.se)

Count(seq, p) == Cardinality({i \in DOMAIN seq : seq[i] = p})

Range(seq) == {seq[i] : i \in DOMAIN seq}

SameBag(s, t) == \A p \in Range(s) \cup Range(t) : Count(s, p) = Count(t, p)

\* The stored points of t lying in the closed square area.
Matches(t, area) == SelectSeq(Node_points(t), LAMBDA p : is_point_inside(area, p))

TypeOK ==
    /\ alive \in BOOLEAN
    /\ op \in {"new", "insert", "query", "query_remove", "nearest"}
    /\ ret.tag \in {"Ok", "Err", "Panic"}
    /\ QuadTree_size(tree) <= MaxSize

InRoot(point) == is_point_inside(RootArea, point)

IsQuery == op \in {"query", "query_remove"}

----------------------------------------------------------------------------
\* Properties

\* C1: a query over an area that intersects the root area, with a buffer at
\* least as long as the number of matches, returns Ok(k) and results[..k] is,
\* as a multiset, exactly the stored points lying in the closed square.
C1_QueryReturnsPointsInArea ==
    (/\ op = "query"
     /\ intersects(RootArea, arg_area)
     /\ Len(results) >= Len(Matches(pre, arg_area)))
    => /\ ret.tag = "Ok"
       /\ ret.n = Len(Matches(pre, arg_area))
       /\ SameBag(SubSeq(results, 1, ret.n), Matches(pre, arg_area))

\* C2: inserting a point outside the root area returns Err(OutsideArea) and
\* mutates nothing: size() and the points of every leaf stay as they were.
C2_InsertOutsideIsRejected ==
    (op = "insert" /\ ~InRoot(arg_point))
    => /\ ret.tag = "Err"
       /\ tree = pre
       /\ QuadTree_size(tree) = QuadTree_size(pre)

\* An outside point that lies in the SE child's area is rejected by a
\* subdivided tree.
C2_Witness ==
    /\ op = "insert"
    /\ ~InRoot(arg_point)
    /\ ~IsLeaf(pre)
    /\ is_point_inside(pre.inner.se.area, arg_point)
    /\ ret.tag = "Err"

\* C3: when query_remove returns Ok(k), size() has dropped by exactly k, a
\* following query over the same area returns Ok(0), and no stored point in
\* the area was skipped.
C3_QueryRemoveRemovesAllMatches ==
    (op = "query_remove" /\ ret.tag = "Ok")
    => /\ QuadTree_size(tree) = QuadTree_size(pre) - ret.n
       /\ LET q == QuadTree_query(tree, arg_area, Buffer(Len(results)))
          IN q.res = "Ok" /\ q.idx = 0
       /\ Matches(tree, arg_area) = <<>>

\* A query_remove that took two points out of the same leaf of a subdivided
\* tree.
C3_Witness ==
    /\ op = "query_remove"
    /\ ret.tag = "Ok"
    /\ ~IsLeaf(pre)
    /\ IsLeaf(pre.inner.nw)
    /\ Len(Matches(pre.inner.nw, arg_area)) = 2
    /\ ret.n >= 2

\* C4: when an insert makes the root leaf subdivide, size() is capacity+1 and
\* a query over the full root area returns every inserted point exactly once.
C4_SubdivisionTransparency ==
    (op = "insert" /\ ret.tag = "Ok" /\ IsLeaf(pre) /\ ~IsLeaf(tree))
    => /\ QuadTree_size(tree) = MAX_POINTS + 1
       /\ LET q == QuadTree_query(tree, RootArea, Buffer(MAX_POINTS + 1))
          IN /\ q.res = "Ok"
             /\ q.idx = MAX_POINTS + 1
             /\ SameBag(q.results, Append(pre.inner.points, arg_point))

\* C5: nearest(point) returns Err(OutsideArea) exactly when point lies outside
\* the root area.
C5_NearestErrIffOutside ==
    op = "nearest" => (ret.tag = "Err" <=> ~InRoot(arg_point))

\* C6: the point nearest(Q) returns is a stored point at minimal squared
\* distance from Q among all stored points.
C6_NearestIsMinimal ==
    (op = "nearest" /\ InRoot(arg_point) /\ ret.tag = "Ok" /\ ret.opt # <<>>)
    => /\ ret.opt[1] \in Range(Node_points(tree))
       /\ \A p \in Range(Node_points(tree)) :
            distance_sq(ret.opt[1], arg_point) <= distance_sq(p, arg_point)

\* C7: for Q inside the root area, nearest(Q) returns None if and only if the
\* tree stores no point, and the only point of a one-point tree.
C7_NearestNoneIffEmpty ==
    (op = "nearest" /\ InRoot(arg_point) /\ ret.tag = "Ok")
    => /\ ret.opt = <<>> <=> QuadTree_size(tree) = 0
       /\ QuadTree_size(tree) = 1 => ret.opt = Node_points(tree)

\* C8: query and query_remove over an area that does not intersect the root
\* area return Err(OutsideArea) and leave the buffer and the tree untouched;
\* over an area that does, they never return Err(OutsideArea).
C8_QueryErrOnlyAtRoot ==
    IsQuery
    => IF ~intersects(RootArea, arg_area)
         THEN /\ ret.tag = "Err"
              /\ results = Buffer(Len(results))
              /\ tree = pre
         ELSE ret.tag # "Err"

\* A query_remove over a disjoint area on a subdivided tree holding points.
C8_Witness ==
    /\ op = "query_remove"
    /\ ~intersects(RootArea, arg_area)
    /\ ~IsLeaf(pre)
    /\ QuadTree_size(pre) > 0
    /\ ret.tag = "Err"

\* C9: query and query_remove panic when the stored points in the area
\* outnumber the buffer, and otherwise return Ok(k) with k the number of
\* matches, k at most the buffer's length.
C9_PanicIffBufferTooSmall ==
    (IsQuery /\ intersects(RootArea, arg_area))
    => LET m == Len(Matches(pre, arg_area))
       IN IF m > Len(results)
            THEN ret.tag = "Panic"
            ELSE ret.tag = "Ok" /\ ret.n = m /\ ret.n <= Len(results)

\* C10: a query that returns, Ok or Err, leaves the tree structure, the
\* points of every leaf and size() as they were.
C10_QueryIsReadOnly ==
    (op = "query" /\ ret.tag \in {"Ok", "Err"})
    => /\ tree = pre
       /\ QuadTree_size(tree) = QuadTree_size(pre)

\* A query that returned Ok after scanning the leaves of a subdivided tree
\* holding points.
C10_Witness ==
    /\ op = "query"
    /\ ret.tag = "Ok"
    /\ ~IsLeaf(pre)
    /\ \E c \in {"nw", "ne", "sw", "se"} :
         /\ intersects(pre.inner[c].area, arg_area)
         /\ QuadTree_size(pre.inner[c]) > 0

\* The closed squares a and b share a point, in exact arithmetic.
Overlap(a, b) ==
    /\ a.center.x - a.radius <= b.center.x + b.radius
    /\ b.center.x - b.radius <= a.center.x + a.radius
    /\ a.center.y - a.radius <= b.center.y + b.radius
    /\ b.center.y - b.radius <= a.center.y + a.radius

\* The squares a and b share boundary points only.
TouchOnly(a, b) ==
    /\ Overlap(a, b)
    /\ \/ Abs(a.center.x - b.center.x) = a.radius + b.radius
       \/ Abs(a.center.y - b.center.y) = a.radius + b.radius

\* intersects(a, b) computes without rounding.
NoRounding(a, b) ==
    /\ F32(a.center.x - b.center.x) = a.center.x - b.center.x
    /\ F32(a.center.y - b.center.y) = a.center.y - b.center.y
    /\ F32(a.radius + b.radius) = a.radius + b.radius

C12_FromPointsContainsAll ==
    pc = "from_points_done"
    => \A i \in DOMAIN arg : is_point_inside(out, arg[i])

\* C13: reading the bytes that write_points wrote for a sequence of points
\* yields the same points in the same order; each record is 12 bytes, the
\* x, y and payload in that order, each with its least significant byte first.
C13_CodecRoundTrip ==
    /\ pc # "write" /\ Len(stream) = 12 * Len(arg)
       => \A i \in DOMAIN arg :
            /\ SubSeq(stream, 12 * i - 11, 12 * i - 8) = to_le_bytes(arg[i].x)
            /\ SubSeq(stream, 12 * i - 7, 12 * i - 4) = to_le_bytes(arg[i].y)
            /\ SubSeq(stream, 12 * i - 3, 12 * i) = to_le_bytes(arg[i].data)
    /\ pc = "read" /\ Len(stream) = 12 * Len(arg)
       => out = [res |-> "Ok", points |-> arg]

\* C13 witness: two different points were written and read back.
C13_Witness ==
    /\ pc = "read"
    /\ Len(arg) = 2 /\ arg[1] # arg[2]
    /\ Len(stream) = 24
    /\ out.res = "Ok" /\ Len(out.points) = 2

\* C14: a read of a stream that ends in the middle of a record is an error,
\* and a read succeeds only if the stream ends on a record boundary.
C14_TruncatedStreamIsError ==
    pc = "read" => (out.res = "Ok" <=> Len(stream) % 12 = 0)

RECURSIVE SubtreeNearest(_, _)
\* The nearest of a subtree as C15 states it: every child whose area holds
\* the point is searched in its own subtree; <<>> or <<[dist, p]>>.
SubtreeNearest(self, point) ==
    IF ~is_point_inside(self.area, point) THEN <<>>
    ELSE IF IsLeaf(self) THEN LeafNearest(self.inner.points, 1, point, <<>>)
    ELSE LET sub(c) == SubtreeNearest(self.inner[c], point)
         IN min_point(min_point(min_point(sub("nw"), sub("ne")), sub("sw")),
                      sub("se"))

\* C15: at an Intermediate node nearest searches every child whose area holds
\* the point in that child's own subtree and returns the least squared
\* distance found among them.
C15_NearestSearchesOwnChildren ==
    (op = "nearest" /\ ret.tag = "Ok")
    => LET s == SubtreeNearest(tree, arg_point)
       IN /\ ret.opt = <<>> <=> s = <<>>
          /\ ret.opt # <<>> => distance_sq(ret.opt[1], arg_point) = s[1].dist

\* Positions of seq whose point is at the least squared distance from point.
Closest(seq, point) ==
    {i \in DOMAIN seq :
        \A j \in DOMAIN seq :
            distance_sq(seq[i], point) <= distance_sq(seq[j], point)}

\* Least and greatest element of a non-empty set of numbers.
Least(S) == CHOOSE i \in S : \A j \in S : i <= j

Greatest(S) == CHOOSE i \in S : \A j \in S : i >= j

RECURSIVE NwLeaf(_)
\* The leaf reached from a node through NW children only.
NwLeaf(self) == IF IsLeaf(self) THEN self ELSE NwLeaf(self.inner.nw)

\* C16 as stated: when nearest returns a point at the least squared distance
\* among the stored points, it is the first such point in traversal order
\* (children in NW, NE, SW, SE order, then position in the leaf).
C16_FirstFoundWins ==
    LET all == Node_points(tree)
    IN (/\ op = "nearest" /\ ret.tag = "Ok" /\ ret.opt # <<>>
        /\ \E i \in Closest(all, arg_point) : all[i] = ret.opt[1])
       => ret.opt[1] = all[Least(Closest(all, arg_point))]

\* C16, amended: nearest returns the point of the scanned leaf (the one
\* reached through NW children) that is at the least squared distance within
\* that leaf, and of several such points the last in the leaf's sequence.
C16_LastFoundWins ==
    (op = "nearest" /\ ret.tag = "Ok")
    => LET pts == NwLeaf(tree).inner.points
       IN IF pts = <<>> THEN ret.opt = <<>>
          ELSE ret.opt = <<pts[Greatest(Closest(pts, arg_point))]>>

\* C16 witness: two different points of the scanned leaf are at the same
\* least distance, and nearest returned the later one.
C16_Witness ==
    /\ op = "nearest" /\ ret.tag = "Ok" /\ ret.opt # <<>>
    /\ LET pts == NwLeaf(tree).inner.points
           ties == Closest(pts, arg_point)
       IN /\ \E i, j \in ties : i < j /\ pts[i] # pts[j]
          /\ ret.opt[1] = pts[Greatest(ties)]
          /\ ret.opt[1] # pts[Least(ties)]

RECURSIVE Leaves(_)
\* The leaves of a subtree.
Leaves(node) ==
    IF IsLeaf(node) THEN {node}
    ELSE Leaves(node.inner.nw) \cup Leaves(node.inner.ne)
         \cup Leaves(node.inner.sw) \cup Leaves(node.inner.se)

RECURSIVE Shape(_)
\* A subtree without its points: which nodes are leaves, and their areas.
Shape(node) ==
    IF IsLeaf(node) THEN new_leaf(node.area)
    ELSE Intermediate(node.area, Shape(node.inner.nw), Shape(node.inner.ne),
                      Shape(node.inner.sw), Shape(node.inner.se))

RECURSIVE TargetLeaf(_, _)
\* The leaf an insert of point reaches: at an Intermediate the first child,
\* in NW, NE, SW, SE order, whose area holds the point.
TargetLeaf(node, point) ==
    IF IsLeaf(node) THEN node
    ELSE LET first == CHOOSE c \in {"nw", "ne", "sw", "se"} :
                        /\ is_point_inside(node.inner[c].area, point)
                        /\ \A d \in {"nw", "ne", "sw", "se"} :
                             is_point_inside(node.inner[d].area, point)
                             => \/ c = d
                                \/ c = "nw"
                                \/ (c = "ne" /\ d # "nw")
                                \/ (c = "sw" /\ d = "se")
         IN TargetLeaf(node.inner[first], point)

\* C17: after every insert that returns, every leaf holds at most MAX_POINTS
\* points; the insert subdivides a leaf exactly when the leaf it reaches
\* already held MAX_POINTS points (so a leaf holding exactly MAX_POINTS stays
\* a leaf); and query_remove never subdivides.
C17_LeafCapacity ==
    /\ \A leaf \in Leaves(tree) : Len(leaf.inner.points) <= MAX_POINTS
    /\ (op = "insert" /\ ret.tag = "Ok")
       => (Shape(tree) # Shape(pre)
           <=> Len(TargetLeaf(pre, arg_point).inner.points) = MAX_POINTS)
    /\ (op = "insert" /\ ret.tag = "Err") => tree = pre
    /\ op = "query_remove" => Shape(tree) = Shape(pre)

\* C17 witness: an insert has subdivided a leaf that held MAX_POINTS points,
\* and a leaf of the new tree holds exactly MAX_POINTS points.
C17_Witness ==
    /\ op = "insert" /\ ret.tag = "Ok"
    /\ Shape(tree) # Shape(pre)
    /\ Len(TargetLeaf(pre, arg_point).inner.points) = MAX_POINTS
    /\ \E leaf \in Leaves(tree) : Len(leaf.inner.points) = MAX_POINTS

RECURSIVE Intermediates(_)
\* The Intermediate nodes of a subtree.
Intermediates(node) ==
    IF IsLeaf(node) THEN {}
    ELSE {node} \cup Intermediates(node.inner.nw) \cup Intermediates(node.inner.ne)
         \cup Intermediates(node.inner.sw) \cup Intermediates(node.inner.se)

\* Some child of the Intermediate node holds the point.
InSomeChild(node, point) ==
    \E c \in {"nw", "ne", "sw", "se"} : is_point_inside(node.inner[c].area, point)

\* C18: no insert ends in the unreachable!() branch or in a failed
\* reinsertion of subdivide, and every point inside the area of an
\* Intermediate node is inside the area of one of its four children.
C18_InvalidTreeUnreachable ==
    /\ op = "insert" => ret.tag # "Panic"
    /\ \A node \in Intermediates(tree) :
         \A point \in FarPoints \cup Points :
            is_point_inside(node.area, point) => InSomeChild(node, point)

\* The children of an Intermediate node whose area holds the point.
ChildrenHolding(node, point) ==
    {c \in {"nw", "ne", "sw", "se"} : is_point_inside(node.inner[c].area, point)}

\* C19: a successful insert stores the point once, as the last point of the
\* leaf reached by taking at each Intermediate the first child in NW, NE, SW,
\* SE order whose area holds it; the count of every other point is unchanged
\* and size() grows by exactly 1.
C19_InsertStoresOnce ==
    (op = "insert" /\ ret.tag = "Ok")
    => LET before == Node_points(pre)
           after == Node_points(tree)
           leaf == TargetLeaf(tree, arg_point).inner.points
       IN /\ QuadTree_size(tree) = QuadTree_size(pre) + 1
          /\ Count(after, arg_point) = Count(before, arg_point) + 1
          /\ \A p \in Range(before) \ {arg_point} : Count(after, p) = Count(before, p)
          /\ Range(after) = Range(before) \cup {arg_point}
          /\ leaf # <<>> /\ leaf[Len(leaf)] = arg_point
          /\ Count(leaf, arg_point) = Count(after, arg_point)

\* C19 witness: a point lying in more than one child of the root was
\* inserted into the subdivided tree with success.
C19_Witness ==
    /\ op = "insert" /\ ret.tag = "Ok"
    /\ ~IsLeaf(pre)
    /\ Cardinality(ChildrenHolding(pre, arg_point)) > 1
    /\ QuadTree_size(tree) = QuadTree_size(pre) + 1

\* C20: in every reachable state every point stored in a leaf lies inside
\* the area of that leaf and inside the root area.
C20_Containment ==
    \A leaf \in Leaves(tree) :
        \A i \in DOMAIN leaf.inner.points :
            /\ is_point_inside(leaf.area, leaf.inner.points[i])
            /\ is_point_inside(tree.area, leaf.inner.points[i])

\* C20 witness: after inserts, a subdivision and a query_remove that took a
\* point out, leaves below the root still hold points.
C20_Witness ==
    /\ op = "query_remove" /\ ret.tag = "Ok" /\ ret.n > 0
    /\ ~IsLeaf(tree)
    /\ QuadTree_size(tree) > 1

\* All the points of the sequence are the same point.
SamePoint(points) == \A i, j \in DOMAIN points : points[i] = points[j]

\* All the points lie strictly inside the same quarter of ClusterRoot.
SameQuarter(points) ==
    \E sx, sy \in {-1, 1} :
        \A i \in DOMAIN points :
            /\ 0 < sx * points[i].x /\ sx * points[i].x < ClusterRoot.radius
            /\ 0 < sy * points[i].y /\ sy * points[i].y < ClusterRoot.radius

\* C21: the subdivision of a leaf holding more than MAX_POINTS points at the
\* same location, or strictly inside the same quarter of a 0.02 root, never
\* returns: every call of subdivide puts all the points into one child and
\* calls subdivide on it again, the radius of the leaf never falls below
\* 0.02, and no depth stops the recursion.
C21_ClusterNeverReturns ==
    (SamePoint(arg.inner.points) \/ SameQuarter(arg.inner.points))
    => /\ pc = "subdivide"
       /\ Len(arg.inner.points) = MAX_POINTS + 1
       /\ arg.area.radius >= 2 * Eps
       /\ LET r == Reinsert(Subdivided(arg.area), arg.inner.points, 1, MaxDepth - 1)
          IN /\ r.res = "Overflow"
             /\ Overfull(r.node).inner.points = arg.inner.points

\* C21 witness: after MaxFrames calls of subdivide on points at one location
\* the running call is on a leaf with the area of the root again.
C21_Witness ==
    /\ pc = "subdivide"
    /\ out = MaxFrames
    /\ SamePoint(arg.inner.points)
    /\ arg.area = ClusterRoot

====
